---- MODULE Spec2Model ----
(***************************************************************************)
(* Model of the mitsumori-ai backend: text normalisation and tokenising    *)
(* (utils.py), the reference index (match.py), the background task and its *)
(* HTTP handlers (main.py) and the semantic extraction / matching path     *)
(* (semantic_match.py).                                                    *)
(*                                                                         *)
(* Text is a sequence of characters; a character is a string naming one    *)
(* code point ("A", "a", "1", "-", " ", and named ones: "ndash" U+2013,    *)
(* "mdash" U+2014, "minus" U+2212, "fw_x" the full-width form of x,        *)
(* "fw_sp" U+3000).                                                        *)
(***************************************************************************)
EXTENDS Integers, Sequences, FiniteSets, TLC

VARIABLES task, proc, files, resp, sem, gpt, idx, txt

vars == <<task, proc, files, resp, sem, gpt, idx, txt>>

(***************************************************************************)
(* Python values that are not text.                                        *)
(***************************************************************************)
\* Each is a one-element sequence holding a marker no text contains, so that it
\* can stand where a text stands.  An optional object is a sequence of length
\* 0 (None) or 1.
None == <<"<None>">>
NaN == <<"<NaN>">>
Missing == <<"<Missing>">>
NonString == <<"<NonString>">>

(***************************************************************************)
(* Characters.                                                             *)
(***************************************************************************)
UpperSeq == <<"A","B","C","D","E","F","G","H","I","J","K","L","M",
              "N","O","P","Q","R","S","T","U","V","W","X","Y","Z">>
LowerSeq == <<"a","b","c","d","e","f","g","h","i","j","k","l","m",
              "n","o","p","q","r","s","t","u","v","w","x","y","z">>
DigitSeq == <<"0","1","2","3","4","5","6","7","8","9">>
FullSeq  == <<"fw_sp","fw_1","fw_A","fw_M","fw_N","fw_m","fw_n">>
HalfSeq  == <<" ","1","A","M","N","m","n">>
DashSeq  == <<"ndash","mdash","minus">>
\* U+0138 (a lowercase letter without uppercase form), U+0301 and U+0308
\* (combining acute and diaeresis), U+0390 (small iota with dialytika and
\* tonos), U+0399 (capital iota), U+03AA (capital iota with dialytika)
ExtSeq   == <<"kra","tonos","diaer","iota_dt","Iota","Iota_d">>

\* All modelled characters in ascending code-point order (Python compares
\* strings by code point).
CharOrder == <<"\n"," ","-","/">> \o DigitSeq \o UpperSeq \o <<"_">> \o LowerSeq
             \o ExtSeq \o DashSeq \o FullSeq

Range(s) == { s[i] : i \in 1..Len(s) }
IndexOf(s, c) == CHOOSE i \in 1..Len(s) : s[i] = c

UpperChars == Range(UpperSeq)
LowerChars == Range(LowerSeq)
DigitChars == Range(DigitSeq)
SpaceChars == {" ", "\n", "fw_sp"}

Ord(c) == IndexOf(CharOrder, c)

\* unicodedata.normalize("NFKC", c) for one character
NFKCChar(c) == IF c \in Range(FullSeq) THEN HalfSeq[IndexOf(FullSeq, c)] ELSE c
\* str.upper() for one character (a full-width letter keeps its width)
UpperChar(c) == IF c \in LowerChars THEN UpperSeq[IndexOf(LowerSeq, c)]
                ELSE IF c = "fw_m" THEN "fw_M"
                ELSE IF c = "fw_n" THEN "fw_N"
                ELSE c

\* canonical composition: capital iota and a following diaeresis become U+03AA
\* (a combining mark stands only after a capital iota in the modelled texts)
RECURSIVE Compose(_)
Compose(s) ==
    IF Len(s) < 2 THEN s
    ELSE IF s[1] = "Iota" /\ s[2] = "diaer"
         THEN <<"Iota_d">> \o Compose(Tail(Tail(s)))
         ELSE <<s[1]>> \o Compose(Tail(s))

\* unicodedata.normalize("NFKC", s)
NFKC(s) == Compose([i \in 1..Len(s) |-> NFKCChar(s[i])])

\* str.upper(): U+0390 has no one-character uppercase form and becomes
\* U+0399 U+0308 U+0301
RECURSIVE Upper(_)
Upper(s) ==
    IF s = <<>> THEN <<>>
    ELSE (IF Head(s) = "iota_dt" THEN <<"Iota","diaer","tonos">>
          ELSE <<UpperChar(Head(s))>>) \o Upper(Tail(s))

\* str.islower() of one character
IsLowerChar(c) == c \in LowerChars \cup {"fw_m", "fw_n", "kra", "iota_dt"}

\* lexicographic order of Python strings
RECURSIVE StrLess(_, _)
StrLess(a, b) ==
    IF b = <<>> THEN FALSE
    ELSE IF a = <<>> THEN TRUE
    ELSE IF Ord(Head(a)) < Ord(Head(b)) THEN TRUE
    ELSE IF Ord(Head(a)) > Ord(Head(b)) THEN FALSE
    ELSE StrLess(Tail(a), Tail(b))

\* sorted(set(S)) for a set of strings
RECURSIVE SortedStrings(_)
SortedStrings(S) ==
    IF S = {} THEN <<>>
    ELSE LET m == CHOOSE x \in S : \A y \in S \ {x} : StrLess(x, y)
         IN  <<m>> \o SortedStrings(S \ {m})

\* a in b (Python substring test)
IsSubstr(a, b) ==
    \E i \in 0..(Len(b) - Len(a)) : SubSeq(b, i + 1, i + Len(a)) = a

\* length of the maximal run of characters of class C in s starting at i
RECURSIVE RunLen(_, _, _)
RunLen(s, i, C) ==
    IF i > Len(s) \/ s[i] \notin C THEN 0 ELSE 1 + RunLen(s, i + 1, C)

(***************************************************************************)
(* utils.py                                                                *)
(***************************************************************************)
BLACKLIST == { <<"S","C","A","L","E">>, <<"D","A","T","E">>, <<"M","M">>,
               <<"I","S","O">>, <<"P","A","G","E">>, <<"C","O","P","Y">>,
               <<"S","A","M","P","L","E">>, <<"M","O","D","E","L">> }

TokenHeadChars == UpperChars \cup DigitChars
TokenTailChars == TokenHeadChars \cup {"-", "_", "/"}
TokenMinTail == 3

\* re.sub(r"\s+", " ", text): every run of whitespace becomes one space
RECURSIVE CollapseSpaces(_)
CollapseSpaces(s) ==
    IF s = <<>> THEN <<>>
    ELSE IF Head(s) \in SpaceChars
         THEN <<" ">> \o CollapseSpaces(SubSeq(s, 1 + RunLen(s, 1, SpaceChars), Len(s)))
         ELSE <<Head(s)>> \o CollapseSpaces(Tail(s))

\* str.strip()
Strip(s) ==
    LET lead == RunLen(s, 1, SpaceChars)
        rest == SubSeq(s, lead + 1, Len(s))
        keep == IF rest = <<>> THEN 0
                ELSE CHOOSE k \in 1..Len(rest) :
                        /\ rest[k] \notin SpaceChars
                        /\ \A j \in (k + 1)..Len(rest) : rest[j] \in SpaceChars
    IN  SubSeq(rest, 1, keep)

MapDash(c) == IF c \in Range(DashSeq) THEN "-" ELSE c

normalize_text(value) ==
    IF value = None THEN <<>>
    ELSE LET nfkc  == NFKC(value)
             upper == Upper(nfkc)
             dash  == [i \in 1..Len(upper) |-> MapDash(upper[i])]
         IN  Strip(CollapseSpaces(dash))

\* TOKEN_PATTERN.finditer(s) from position i: leftmost, greedy, not overlapping
RECURSIVE TokenMatches(_, _)
TokenMatches(s, i) ==
    IF i > Len(s) THEN <<>>
    ELSE IF s[i] \in TokenHeadChars /\ RunLen(s, i + 1, TokenTailChars) >= TokenMinTail
         THEN LET n == 1 + RunLen(s, i + 1, TokenTailChars)
              IN  <<SubSeq(s, i, i + n - 1)>> \o TokenMatches(s, i + n)
         ELSE TokenMatches(s, i + 1)

\* mutant: every match of the pattern is kept
extract_tokens_unfiltered(text) ==
    SortedStrings(Range(TokenMatches(normalize_text(text), 1)))

extract_tokens(text) ==
    LET normalized == normalize_text(text)
        found      == TokenMatches(normalized, 1)
        candidates == { found[k] : k \in { j \in 1..Len(found) :
                            /\ \E c \in Range(found[j]) : c \in DigitChars
                            /\ found[j] \notin BLACKLIST } }
    IN  SortedStrings(candidates)

(***************************************************************************)
(* match.py: DatabaseMatcher                                               *)
(***************************************************************************)
\* str(cell) of a pandas cell: an empty cell is NaN and prints as "nan"
CellStr(cell) == IF cell = NaN THEN <<"n","a","n">> ELSE cell

\* A Python dict is a sequence of <<key, value>> pairs in insertion order.
DictKeys(d) == { d[i][1] : i \in 1..Len(d) }
DictGet(d, k) == d[CHOOSE i \in 1..Len(d) : d[i][1] = k][2]
DictValues(d) == [i \in 1..Len(d) |-> d[i][2]]
\* d[k] = v: a new key is appended, an existing key keeps its position
DictSet(d, k, v) ==
    IF k \in DictKeys(d)
    THEN [i \in 1..Len(d) |-> IF d[i][1] = k THEN <<k, v>> ELSE d[i]]
    ELSE Append(d, <<k, v>>)

MatchRow(hinban, kidou, zaiku) == [hinban |-> hinban, kidou |-> kidou, zaiku |-> zaiku]

EmptyMatcher == [hinban_map |-> <<>>, kidou_map |-> <<>>]

\* self.kidou_map.setdefault(token, []).append(match_row) for every token
RECURSIVE RegisterTokens(_, _, _)
RegisterTokens(kmap, tokens, row) ==
    IF tokens = <<>> THEN kmap
    ELSE LET t   == Head(tokens)
             old == IF t \in DictKeys(kmap) THEN DictGet(kmap, t) ELSE <<>>
         IN  RegisterTokens(DictSet(kmap, t, Append(old, row)), Tail(tokens), row)

\* one iteration of the loop over df.iterrows()
LoadRow(m, src, zaiku_exists) ==
    LET hinban    == normalize_text(CellStr(src.hinban))
        kidou     == normalize_text(CellStr(src.kidou))
        zaiku     == IF zaiku_exists THEN CellStr(src.zaiku) ELSE None
        match_row == MatchRow(hinban, kidou, zaiku)
        hmap      == IF hinban # <<>> THEN DictSet(m.hinban_map, hinban, match_row)
                     ELSE m.hinban_map
    IN  [hinban_map |-> hmap,
         kidou_map  |-> RegisterTokens(m.kidou_map, extract_tokens(kidou), match_row)]

RECURSIVE LoadRows(_, _, _)
LoadRows(m, rows, zaiku_exists) ==
    IF rows = <<>> THEN m
    ELSE LoadRows(LoadRow(m, Head(rows), zaiku_exists), Tail(rows), zaiku_exists)

\* the column check of _load
SchemaOk(table) == "hinban" \in table.columns /\ "kidou" \in table.columns

\* mutant: the rows are indexed without the column check
LoadUnchecked(table) == <<LoadRows(EmptyMatcher, table.rows, "zaiku" \in table.columns)>>

\* DatabaseMatcher(csv_path): <<matcher>>, or <<>> when _load raises ValueError
Load(table) ==
    IF ~SchemaOk(table) THEN <<>>
    ELSE <<LoadRows(EmptyMatcher, table.rows, "zaiku" \in table.columns)>>

match_token(m, token) ==
    LET normalized     == normalize_text(token)
        hinban_matches == IF normalized \in DictKeys(m.hinban_map)
                          THEN <<DictGet(m.hinban_map, normalized)>> ELSE <<>>
        kidou_matches  == IF normalized \in DictKeys(m.kidou_map)
                          THEN DictGet(m.kidou_map, normalized) ELSE <<>>
    IN  <<hinban_matches, kidou_matches>>

retry(m, token) ==
    LET normalized == normalize_text(token)
        exact      == IF normalized \in DictKeys(m.hinban_map)
                      THEN {DictGet(m.hinban_map, normalized).hinban} ELSE {}
        rows       == IF normalized \in DictKeys(m.kidou_map)
                      THEN DictGet(m.kidou_map, normalized) ELSE <<>>
    IN  SortedStrings(exact \cup { rows[i].hinban : i \in 1..Len(rows) })

(***************************************************************************)
(* semantic_match.py: candidates                                           *)
(***************************************************************************)
RegexMaxLetters == 5
RegexMinDigits == 2

\* _normalize_candidate: NFKC, every whitespace character removed, upper()
_normalize_candidate(value) ==
    LET nfkc    == NFKC(value)
        nospace == SelectSeq(nfkc, LAMBDA c : c \notin SpaceChars)
    IN  Upper(nospace)

\* A JSON element of the payload: is_dict says whether it is an object; hinban
\* and normalized are texts, Missing (no such key) or NonString (a number, null).
Item(hinban, normalized) == [is_dict |-> TRUE, hinban |-> hinban, normalized |-> normalized]
NotDict == [is_dict |-> FALSE, hinban |-> Missing, normalized |-> Missing]

\* str(item.get("hinban", "")).strip()
ItemHinban(item) == IF item.hinban = Missing THEN <<>> ELSE Strip(item.hinban)
\* item.get("normalized", hinban)
ItemNormalizedArg(item) ==
    IF item.normalized = Missing THEN ItemHinban(item) ELSE item.normalized
\* item.get raises AttributeError on a non-object, NFKC raises TypeError on a non-string
ItemRaises(item) == ~item.is_dict \/ ItemNormalizedArg(item) = NonString

\* the loop of _unique_items over items[i..]; unique maps normalized -> item
RECURSIVE UniqueLoop(_, _, _)
UniqueLoop(items, i, unique) ==
    IF i > Len(items) THEN [raised |-> FALSE, items |-> DictValues(unique)]
    ELSE IF ItemRaises(items[i]) THEN [raised |-> TRUE, items |-> <<>>]
    ELSE LET hinban     == ItemHinban(items[i])
             normalized == _normalize_candidate(ItemNormalizedArg(items[i]))
         IN  IF normalized = <<>> \/ normalized \in DictKeys(unique)
             THEN UniqueLoop(items, i + 1, unique)
             ELSE UniqueLoop(items, i + 1,
                             DictSet(unique, normalized, Item(hinban, normalized)))

_unique_items(items) == UniqueLoop(items, 1, <<>>)

\* REGEX_PATTERN.finditer(s) from position i: 1-5 letters, then at least 2
\* digits, then the rest of the alphanumeric run
RECURSIVE RegexMatches(_, _)
RegexMatches(s, i) ==
    IF i > Len(s) THEN <<>>
    ELSE LET letters == RunLen(s, i, UpperChars)
             digits  == RunLen(s, i + letters, DigitChars)
         IN  IF letters >= 1 /\ letters <= RegexMaxLetters /\ digits >= RegexMinDigits
             THEN LET n == letters + RunLen(s, i + letters, UpperChars \cup DigitChars)
                  IN  <<SubSeq(s, i, i + n - 1)>> \o RegexMatches(s, i + n)
             ELSE RegexMatches(s, i + 1)

_fallback_regex_extraction(text) ==
    LET normalized_text == NFKC(Upper(text))
        found           == RegexMatches(normalized_text, 1)
        candidates      == [k \in 1..Len(found) |->
                               Item(found[k], _normalize_candidate(found[k]))]
    IN  _unique_items(candidates).items

(***************************************************************************)
(* semantic_match.py: _match_semantic_items                                *)
(* A score is an integer number of thousandths; a ratio or a threshold is  *)
(* a pair <<numerator, denominator>>.                                      *)
(***************************************************************************)
ScoreExact == 1000
ScoreSubstr == 900
ScoreKidou == 880
ScoreNone == 0
DefaultThreshold == <<82, 100>>

\* length of the common run of a[i..ahi-1] and b[j..bhi-1]
RECURSIVE CommonLen(_, _, _, _, _, _)
CommonLen(a, b, i, j, ahi, bhi) ==
    IF i >= ahi \/ j >= bhi \/ a[i] # b[j] THEN 0
    ELSE 1 + CommonLen(a, b, i + 1, j + 1, ahi, bhi)

\* SequenceMatcher.find_longest_match(alo, ahi, blo, bhi) without junk: the
\* longest block, the earliest in a, then the earliest in b; <<i, j, size>>
find_longest_match(a, b, alo, ahi, blo, bhi) ==
    LET starts == (alo..(ahi - 1)) \X (blo..(bhi - 1))
        size(p) == CommonLen(a, b, p[1], p[2], ahi, bhi)
        best == CHOOSE p \in starts :
                    \A q \in starts :
                        \/ size(q) < size(p)
                        \/ /\ size(q) = size(p)
                           /\ \/ p[1] < q[1]
                              \/ p[1] = q[1] /\ p[2] <= q[2]
    IN  IF starts = {} THEN <<alo, blo, 0>> ELSE <<best[1], best[2], size(best)>>

\* the sum of the sizes of get_matching_blocks() within the two ranges
RECURSIVE MatchingSize(_, _, _, _, _, _)
MatchingSize(a, b, alo, ahi, blo, bhi) ==
    LET m == find_longest_match(a, b, alo, ahi, blo, bhi)
    IN  IF m[3] = 0 THEN 0
        ELSE m[3] + MatchingSize(a, b, alo, m[1], blo, m[2])
                  + MatchingSize(a, b, m[1] + m[3], ahi, m[2] + m[3], bhi)

\* SequenceMatcher(None, a, b).ratio() = 2.0 * matches / (len(a) + len(b))
Ratio(a, b) ==
    IF Len(a) + Len(b) = 0 THEN <<1, 1>>
    ELSE <<2 * MatchingSize(a, b, 1, Len(a) + 1, 1, Len(b) + 1), Len(a) + Len(b)>>

RatioGreater(r, q) == r[1] * q[2] > q[1] * r[2]
RatioAtLeast(r, q) == r[1] * q[2] >= q[1] * r[2]

\* round(ratio, 3) in thousandths; a tie goes to the even neighbour (ties of
\* these ratios are exact in binary floating point below a total length of 80)
Round3(r) ==
    LET scaled == 1000 * r[1]
        low    == scaled \div r[2]
        twice  == 2 * (scaled % r[2])
    IN  IF twice < r[2] THEN low
        ELSE IF twice > r[2] THEN low + 1
        ELSE IF low % 2 = 0 THEN low ELSE low + 1

MatchResult(hinban, normalized, status, score, matched_hinban, zaiku) ==
    [input_hinban |-> hinban, normalized |-> normalized, match_status |-> status,
     score |-> score, matched_hinban |-> matched_hinban, zaiku |-> zaiku]

\* x or None
OrNone(x) == IF x = <<>> THEN None ELSE x

\* the first row of all_rows[i..] that contains normalized or is contained in
\* it: <<row>>, or <<>> when the scan ends without a break
RECURSIVE SubstrScan(_, _, _)
SubstrScan(all_rows, i, normalized) ==
    IF i > Len(all_rows) THEN <<>>
    ELSE IF \/ normalized # <<>> /\ IsSubstr(normalized, all_rows[i].hinban)
            \/ all_rows[i].hinban # <<>> /\ IsSubstr(all_rows[i].hinban, normalized)
         THEN <<all_rows[i]>>
         ELSE SubstrScan(all_rows, i + 1, normalized)

\* the fuzzy loop over all_rows[i..]: [best_ratio, best_row]
RECURSIVE FuzzyScan(_, _, _, _)
FuzzyScan(all_rows, i, normalized, best) ==
    IF i > Len(all_rows) THEN best
    ELSE LET ratio == Ratio(normalized, all_rows[i].hinban)
         IN  FuzzyScan(all_rows, i + 1, normalized,
                       IF RatioGreater(ratio, best.best_ratio)
                       THEN [best_ratio |-> ratio, best_row |-> <<all_rows[i]>>]
                       ELSE best)

\* mutant: the threshold itself is rejected (> for >=)
FuzzyAcceptsStrict(best, fuzzy_threshold) ==
    best.best_row # <<>> /\ RatioGreater(best.best_ratio, fuzzy_threshold)

\* if best_row and best_ratio >= fuzzy_threshold
FuzzyAccepts(best, fuzzy_threshold) ==
    best.best_row # <<>> /\ RatioAtLeast(best.best_ratio, fuzzy_threshold)

\* mutant: the KIDOU tier reports the score of the SUBSTR tier
KidouOrFuzzySubstrScore(hinban, normalized, m, all_rows, fuzzy_threshold) ==
    LET retry_candidates == retry(m, normalized)
    IN  IF retry_candidates # <<>>
        THEN MatchResult(hinban, normalized, "KIDOU", ScoreSubstr, retry_candidates[1], None)
        ELSE LET best == FuzzyScan(all_rows, 1, normalized,
                                   [best_ratio |-> <<0, 1>>, best_row |-> <<>>])
             IN  IF FuzzyAccepts(best, fuzzy_threshold)
                 THEN MatchResult(hinban, normalized, "FUZZY", Round3(best.best_ratio),
                                  best.best_row[1].hinban, OrNone(best.best_row[1].zaiku))
                 ELSE MatchResult(hinban, normalized, "NONE", ScoreNone, None, None)

\* the tiers after the exact lookup failed and the substring scan found nothing
KidouOrFuzzy(hinban, normalized, m, all_rows, fuzzy_threshold) ==
    LET retry_candidates == retry(m, normalized)
    IN  IF retry_candidates # <<>>
        THEN LET matched_hinban == retry_candidates[1]
             IN  MatchResult(hinban, normalized, "KIDOU", ScoreKidou, matched_hinban,
                     IF matched_hinban \in DictKeys(m.hinban_map)
                     THEN DictGet(m.hinban_map, matched_hinban).zaiku ELSE None)
        ELSE LET best == FuzzyScan(all_rows, 1, normalized,
                                   [best_ratio |-> <<0, 1>>, best_row |-> <<>>])
             IN  IF FuzzyAccepts(best, fuzzy_threshold)
                 THEN MatchResult(hinban, normalized, "FUZZY", Round3(best.best_ratio),
                                  best.best_row[1].hinban, OrNone(best.best_row[1].zaiku))
                 ELSE MatchResult(hinban, normalized, "NONE", ScoreNone, None, None)

\* the exact lookup of the loop body: matcher.hinban_map.get(normalized)
ExactRow(m, normalized) ==
    IF normalized \in DictKeys(m.hinban_map)
    THEN <<DictGet(m.hinban_map, normalized)>> ELSE <<>>

\* mutant: the substring scan runs before the exact lookup
MatchOneSubstrFirst(hinban, normalized, m, all_rows, fuzzy_threshold) ==
    LET hit == SubstrScan(all_rows, 1, normalized)
    IN  IF hit # <<>>
        THEN MatchResult(hinban, normalized, "SUBSTR", ScoreSubstr,
                         hit[1].hinban, OrNone(hit[1].zaiku))
        ELSE KidouOrFuzzy(hinban, normalized, m, all_rows, fuzzy_threshold)

\* the body of the loop of _match_semantic_items for one item with a
\* non-empty normalized text
MatchOne(hinban, normalized, m, all_rows, fuzzy_threshold) ==
    LET row == ExactRow(m, normalized)
    IN  IF row # <<>>
        THEN MatchResult(hinban, normalized, "EXACT", ScoreExact,
                         row[1].hinban, OrNone(row[1].zaiku))
        ELSE LET hit == SubstrScan(all_rows, 1, normalized)
             IN  IF hit # <<>>
                 THEN MatchResult(hinban, normalized, "SUBSTR", ScoreSubstr,
                                  hit[1].hinban, OrNone(hit[1].zaiku))
                 ELSE KidouOrFuzzy(hinban, normalized, m, all_rows, fuzzy_threshold)

RECURSIVE MatchLoop(_, _, _, _, _)
MatchLoop(items, i, m, all_rows, fuzzy_threshold) ==
    IF i > Len(items) THEN <<>>
    ELSE LET hinban     == ItemHinban(items[i])
             normalized == _normalize_candidate(ItemNormalizedArg(items[i]))
         IN  (IF normalized = <<>> THEN <<>>
              ELSE <<MatchOne(hinban, normalized, m, all_rows, fuzzy_threshold)>>)
             \o MatchLoop(items, i + 1, m, all_rows, fuzzy_threshold)

_match_semantic_items(items, m, fuzzy_threshold) ==
    MatchLoop(items, 1, m, DictValues(m.hinban_map), fuzzy_threshold)

(***************************************************************************)
(* Inputs.                                                                 *)
(***************************************************************************)
MaxRows == 2
MaxItems == 1

SeqsUpTo(S, n) == UNION { [1..k -> S] : k \in 0..n }

\* a row of the DataFrame pd.read_csv returns: an empty cell of the file is NaN
SourceRow(hinban, kidou, zaiku) == [hinban |-> hinban, kidou |-> kidou, zaiku |-> zaiku]
Table(columns, rows) == [columns |-> columns, rows |-> rows]
AllColumns == {"hinban", "kidou", "zaiku"}

Idle == [pc |-> "idle"]

(***************************************************************************)
(* The semantic path: process_pdf_semantic from the extracted items on.    *)
(***************************************************************************)
SemRows == {
    SourceRow(<<"X","N","1","0","0">>, NaN, <<"5">>),
    SourceRow(<<"a","b","ndash","1","0","0">>,
              <<"f","o","r"," ","x","n","1","0","0"," ","c","d","2","0","0">>, NaN),
    SourceRow(<<"L","D","9","0">>, <<"C","D","2","0","0">>, <<"8">>),
    SourceRow(<<"X","N","1","0","0","1","2","3","4","5">>,
              <<"x","n","1","0","0"," ","s","e","t">>, <<"7">>),
    SourceRow(<<" ">>, <<"C","D","2","0","0","/","L","D","9","0">>, <<"1">>) }

SemCandidates == {
    Item(<<"X","N","1","0","0">>, <<"X","N","1","0","0">>),
    Item(<<"x","n"," ","1","a","0","0">>, <<"X","N","1","A","0","0">>),
    Item(<<"X","N","1">>, Missing),
    Item(<<"c","d"," ","2","0","0">>, <<"c","d","2","0","0">>),
    Item(<<"A","B","minus","1","0","0">>, <<"A","B","minus","1","0","0">>),
    Item(<<"X","N","1","0","0","1","2","3","4","6">>, Missing),
    Item(<<"L","D","8","0">>, <<"L","D","8","0">>),
    Item(<<"L","D","8","X","0">>, <<"fw_sp","L","D","8","X","0">>),
    Item(<<"Z","Z","7","7">>, <<"Z","Z","7","7">>),
    Item(<<" ">>, <<"\n">>) }

SemThresholds == { DefaultThreshold, <<75, 100>>, <<6667, 10000>> }

SemInit ==
    /\ \E rows \in SeqsUpTo(SemRows, MaxRows), payload \in SeqsUpTo(SemCandidates, MaxItems),
          thr \in SemThresholds :
          sem = [pc |-> "match", matcher |-> Load(Table(AllColumns, rows)),
                 items |-> _unique_items(payload).items,
                 fuzzy_threshold |-> thr, results |-> <<>>]
    /\ task = Idle /\ proc = Idle /\ files = Idle /\ resp = Idle
    /\ gpt = Idle /\ idx = Idle /\ txt = Idle

\* match_results = _match_semantic_items(items, matcher)
SemMatch ==
    /\ sem.pc = "match"
    /\ sem' = [sem EXCEPT !.pc = "done",
                           !.results = _match_semantic_items(sem.items, sem.matcher[1],
                                                             sem.fuzzy_threshold)]
    /\ UNCHANGED <<task, proc, files, resp, gpt, idx, txt>>

SemNext == SemMatch

SpecSem == SemInit /\ [][SemNext]_vars

(***************************************************************************)
(* semantic_match.py: extract_hinbans_with_gpt.  One LLM call has an       *)
(* outcome: an exception with a status (NoStatus when the exception        *)
(* carries none), or a response whose first tool call, if any, carries an  *)
(* argument string.                                                        *)
(***************************************************************************)
MaxAttempts == 3
MaxPayload == 2
NoStatus == 0
Backoff == <<3, 2>>
TransientStatuses == {429, 500, 502, 503, 504}

LlmError(status) ==
    [kind |-> "error", status |-> status, tool_calls |-> FALSE, parse |-> "none",
     has_items |-> FALSE, is_list |-> FALSE, items |-> <<>>]
\* parse: "error" (json.loads raises), "array" (valid JSON that is no object),
\* "object"; has_items / is_list describe args["items"]
LlmResponse(tool_calls, parse, has_items, is_list, items) ==
    [kind |-> "response", status |-> NoStatus, tool_calls |-> tool_calls, parse |-> parse,
     has_items |-> has_items, is_list |-> is_list, items |-> items]

RECURSIVE Pow(_, _)
Pow(b, n) == IF n = 0 THEN 1 ELSE b * Pow(b, n - 1)

Fallback(g) ==
    [g EXCEPT !.pc = "returned",
              !.result = [method |-> "regex_fallback",
                          items |-> _fallback_regex_extraction(g.text)]]

\* mutant: an exception that carries a status is retried whatever the status
ExceptHandlerRetryAny(g, status) ==
    IF status # NoStatus /\ g.attempt < MaxAttempts
    THEN [g EXCEPT !.slept = Append(@, <<Pow(Backoff[1], g.attempt),
                                         Pow(Backoff[2], g.attempt)>>)]
    ELSE Fallback(g)

\* mutant: only API errors are caught, any other exception propagates
ExceptHandlerApiOnly(g, status) ==
    IF status = NoStatus THEN [g EXCEPT !.pc = "raised"]
    ELSE IF status \in TransientStatuses /\ g.attempt < MaxAttempts
    THEN [g EXCEPT !.slept = Append(@, <<Pow(Backoff[1], g.attempt),
                                         Pow(Backoff[2], g.attempt)>>)]
    ELSE Fallback(g)

\* except Exception as exc: sleep backoff ** attempt and continue, or fall back
ExceptHandler(g, status) ==
    IF status \in TransientStatuses /\ g.attempt < MaxAttempts
    THEN [g EXCEPT !.slept = Append(@, <<Pow(Backoff[1], g.attempt),
                                         Pow(Backoff[2], g.attempt)>>)]
    ELSE Fallback(g)

\* the try block for the outcome o of client.chat.completions.create
TryBlock(g, o) ==
    IF o.kind = "error" THEN ExceptHandler(g, o.status)
    ELSE IF ~o.tool_calls THEN Fallback(g)
    ELSE IF o.parse # "object" THEN ExceptHandler(g, NoStatus)
    ELSE LET parsed_is_list == ~o.has_items \/ o.is_list
             parsed == IF o.has_items THEN o.items ELSE <<>>
         IN  IF ~parsed_is_list THEN Fallback(g)
             ELSE LET normalized_items == _unique_items(parsed)
                  IN  IF normalized_items.raised THEN ExceptHandler(g, NoStatus)
                      ELSE IF normalized_items.items = <<>> THEN Fallback(g)
                      ELSE [g EXCEPT !.pc = "returned",
                                     !.result = [method |-> "gpt_tool",
                                                 items |-> normalized_items.items]]

\* one pass of "while attempt < max_attempts", and the return after the loop
LoopStep(g, o) ==
    IF g.attempt < MaxAttempts
    THEN TryBlock([g EXCEPT !.attempt = @ + 1, !.llm_calls = @ + 1,
                            !.history = Append(@, o)], o)
    ELSE Fallback(g)

GptTexts == {
    <<>>,
    <<"m","o","d","e","l"," ","n","n","f","4","1","0","3","0"," ","l","e","9">>,
    <<"fw_m","fw_n","minus","4","5","0","x"," ","A","B","1","2","\n","a","b","fw_1","2">> }

GptElements == {
    Item(<<"N","N","F","4","1","0","3","0"," ","L","E","9">>,
         <<"N","N","F","4","1","0","3","0","L","E","9">>),
    Item(<<" ","x","n","1","0","0"," ">>, Missing),
    Item(<<"X","N","1","0","0">>, <<"x","n"," ","1","0","0">>),
    Item(Missing, <<" ">>),
    Item(<<"A","B","1","2">>, NonString),
    NotDict }

GptErrors == { LlmError(st) : st \in TransientStatuses \cup {NoStatus, 400, 401} }

GptResponses ==
    { LlmResponse(FALSE, "none", FALSE, FALSE, <<>>),
      LlmResponse(TRUE, "error", FALSE, FALSE, <<>>),
      LlmResponse(TRUE, "array", FALSE, FALSE, <<>>),
      LlmResponse(TRUE, "object", FALSE, FALSE, <<>>),
      LlmResponse(TRUE, "object", TRUE, FALSE, <<>>) }
    \cup { LlmResponse(TRUE, "object", TRUE, TRUE, items) :
               items \in SeqsUpTo(GptElements, MaxPayload) }

GptInit ==
    /\ \E text \in GptTexts :
          gpt = [pc |-> "loop", text |-> text, attempt |-> 0, llm_calls |-> 0,
                 history |-> <<>>, slept |-> <<>>,
                 result |-> [method |-> "none", items |-> <<>>]]
    /\ task = Idle /\ proc = Idle /\ files = Idle /\ resp = Idle
    /\ sem = Idle /\ idx = Idle /\ txt = Idle

\* an attempt whose API call raises
GptCallFails ==
    /\ gpt.pc = "loop"
    /\ \E o \in GptErrors : gpt' = LoopStep(gpt, o)
    /\ UNCHANGED <<task, proc, files, resp, sem, idx, txt>>

\* an attempt whose API call returns a response
GptCallReturns ==
    /\ gpt.pc = "loop"
    /\ \E o \in GptResponses : gpt' = LoopStep(gpt, o)
    /\ UNCHANGED <<task, proc, files, resp, sem, idx, txt>>

GptNext == GptCallFails \/ GptCallReturns

SpecGpt == GptInit /\ [][GptNext]_vars

(***************************************************************************)
(* The reference index on its own: a loaded DatabaseMatcher and calls of   *)
(* match_token and retry on it.                                            *)
(***************************************************************************)
ABC123 == <<"A","B","C","1","2","3">>
XYZ999 == <<"X","Y","Z","9","9","9">>
AB100 == <<"A","B","1","0","0">>

IdxRows == {
    SourceRow(ABC123, <<"L","E","D">>, <<"3">>),
    SourceRow(<<"a","b","c","1","2","3">>, <<"u","s","e"," ","x","y","z","9","9","9">>, NaN),
    SourceRow(XYZ999, <<"f","o","r"," ","a","b","c","1","2","3"," ","a","b","1","0","0">>, <<"0">>),
    SourceRow(<<"fw_sp","X","Y","Z","9","9","9">>, NaN, <<"1">>),
    SourceRow(NaN, <<"A","B","C","1","2","3","\n","A","B","1","0","0">>, <<"4">>),
    SourceRow(<<" ">>, <<"m","o","d","e","l"," ","A","B","1","0","0">>, <<"2">>),
    SourceRow(AB100, <<"A","B","1","0","0","-","S","E","T">>, <<"9">>) }

IdxTokens == { <<"a","b","c","1","2","3">>, <<"X","Y","Z","9","9","9"," ">>, AB100,
               <<"n","a","n">>, <<"A","B","1","0","0","mdash","s","e","t">>, <<>> }

IdxColumnSets == { AllColumns, {"hinban", "kidou"} }

\* mutant: the token is looked up as given
MatchTokenCallRaw(m, token) ==
    [matcher |-> m,
     hinban_matches |-> IF token \in DictKeys(m.hinban_map)
                        THEN <<DictGet(m.hinban_map, token)>> ELSE <<>>,
     kidou_matches |-> IF token \in DictKeys(m.kidou_map)
                       THEN DictGet(m.kidou_map, token) ELSE <<>>]

\* a method call on the matcher: the matcher afterwards and what is returned
MatchTokenCall(m, token) ==
    [matcher |-> m, hinban_matches |-> match_token(m, token)[1],
     kidou_matches |-> match_token(m, token)[2]]

\* mutant: the collected candidates are returned as collected
RetryCallUnsorted(m, token) ==
    LET hm == match_token(m, token)[1]
        km == match_token(m, token)[2]
    IN  [matcher |-> m,
         candidates |-> [i \in 1..Len(hm) |-> hm[i].hinban]
                        \o [i \in 1..Len(km) |-> km[i].hinban]]

RetryCall(m, token) == [matcher |-> m, candidates |-> retry(m, token)]

IdxInit ==
    /\ \E rows \in SeqsUpTo(IdxRows, MaxRows), cols \in IdxColumnSets :
          idx = [pc |-> "loaded", table |-> Table(cols, rows),
                 matcher |-> Load(Table(cols, rows))[1],
                 token |-> <<>>, hinban_matches |-> <<>>, kidou_matches |-> <<>>,
                 candidates |-> <<>>]
    /\ task = Idle /\ proc = Idle /\ files = Idle /\ resp = Idle
    /\ sem = Idle /\ gpt = Idle /\ txt = Idle

IdxMatchToken ==
    /\ \E token \in IdxTokens :
          LET r == MatchTokenCall(idx.matcher, token)
          IN  idx' = [idx EXCEPT !.pc = "match_token", !.token = token,
                                 !.matcher = r.matcher,
                                 !.hinban_matches = r.hinban_matches,
                                 !.kidou_matches = r.kidou_matches,
                                 !.candidates = <<>>]
    /\ UNCHANGED <<task, proc, files, resp, sem, gpt, txt>>

IdxRetry ==
    /\ \E token \in IdxTokens :
          LET r == RetryCall(idx.matcher, token)
          IN  idx' = [idx EXCEPT !.pc = "retry", !.token = token,
                                 !.matcher = r.matcher,
                                 !.hinban_matches = <<>>, !.kidou_matches = <<>>,
                                 !.candidates = r.candidates]
    /\ UNCHANGED <<task, proc, files, resp, sem, gpt, txt>>

IdxNext == IdxMatchToken \/ IdxRetry

SpecIdx == IdxInit /\ [][IdxNext]_vars

(***************************************************************************)
(* main.py: the task created by upload, the background process_task and    *)
(* the request handlers.  process_task runs in a worker thread, so a        *)
(* handler can run between any two of its writes to the TaskState; every   *)
(* action of process_task makes at most one such write.                    *)
(***************************************************************************)
MaxDocs == 2

NoError == "None"
StatusTotals(tokens, hit_hinban, hit_spec, fail) ==
    [tokens |-> tokens, hit_hinban |-> hit_hinban, hit_spec |-> hit_spec, fail |-> fail]

\* ResultRow declares zaiko; the keyword zaiku= of process_task is an extra
\* field, which pydantic ignores, so zaiko keeps its default
ResultRow(pdf_name, page, token, matched_type, matched_hinban, zaiku) ==
    [pdf_name |-> pdf_name, page |-> page, token |-> token,
     matched_type |-> matched_type, matched_hinban |-> matched_hinban, zaiko |-> None]
FailureRow(pdf_name, page, token) == [pdf_name |-> pdf_name, page |-> page, token |-> token]

\* a PDF: reader_count is len(PdfReader.pages), 0 when the reader fails;
\* extract is the outcome of extract_text_pages, pages the texts it returns
Pdf(name, reader_count, extract, pages) ==
    [name |-> name, reader_count |-> reader_count, extract |-> extract, pages |-> pages]

Max(a, b) == IF a >= b THEN a ELSE b
Min(a, b) == IF a <= b THEN a ELSE b

\* update_progress: int(processed_pages / state.pages * 100), capped at 100; the
\* float quotient truncates to the integer quotient for the page counts here
update_progress(pages, processed_pages) ==
    IF pages = 0 THEN 0 ELSE Min(100, (processed_pages * 100) \div pages)

RECURSIVE TotalPages(_)
TotalPages(pdfs) ==
    IF pdfs = <<>> THEN 0 ELSE Max(Head(pdfs).reader_count, 1) + TotalPages(Tail(pdfs))

\* mutant: only a part-number match marks the token as matched
TokenEventsHinbanOnly(m, pdf_name, page_index, token) ==
    LET hinban_matches == match_token(m, token)[1]
        kidou_matches  == match_token(m, token)[2]
    IN  [i \in 1..Len(hinban_matches) |->
            [kind |-> "hinban",
             row |-> ResultRow(pdf_name, page_index, token, "hinban",
                               hinban_matches[i].hinban, hinban_matches[i].zaiku)]]
        \o [i \in 1..Len(kidou_matches) |->
            [kind |-> "spec",
             row |-> ResultRow(pdf_name, page_index, token, "spec",
                               kidou_matches[i].hinban, kidou_matches[i].zaiku)]]
        \o (IF hinban_matches = <<>>
            THEN <<[kind |-> "fail", row |-> FailureRow(pdf_name, page_index, token)]>>
            ELSE <<>>)

\* the body of "for token in tokens": the records it appends, in order; each
\* comes with the increment of its counter
TokenEvents(m, pdf_name, page_index, token) ==
    LET hinban_matches == match_token(m, token)[1]
        kidou_matches  == match_token(m, token)[2]
        matched        == hinban_matches # <<>> \/ kidou_matches # <<>>
    IN  [i \in 1..Len(hinban_matches) |->
            [kind |-> "hinban",
             row |-> ResultRow(pdf_name, page_index, token, "hinban",
                               hinban_matches[i].hinban, hinban_matches[i].zaiku)]]
        \o [i \in 1..Len(kidou_matches) |->
            [kind |-> "spec",
             row |-> ResultRow(pdf_name, page_index, token, "spec",
                               kidou_matches[i].hinban, kidou_matches[i].zaiku)]]
        \o (IF ~matched
            THEN <<[kind |-> "fail", row |-> FailureRow(pdf_name, page_index, token)]>>
            ELSE <<>>)

RECURSIVE PageEvents(_, _, _, _)
PageEvents(m, pdf_name, page_index, tokens) ==
    IF tokens = <<>> THEN <<>>
    ELSE TokenEvents(m, pdf_name, page_index, Head(tokens))
         \o PageEvents(m, pdf_name, page_index, Tail(tokens))

\* "hinban" < "spec"
TypeLess(a, b) == a = "hinban" /\ b = "spec"

\* (pdf_name, page, matched_type) of a before that of b
ResultKeyLess(a, b) ==
    \/ StrLess(a.pdf_name, b.pdf_name)
    \/ a.pdf_name = b.pdf_name /\ a.page < b.page
    \/ a.pdf_name = b.pdf_name /\ a.page = b.page /\ TypeLess(a.matched_type, b.matched_type)
FailureKeyLess(a, b) ==
    \/ StrLess(a.pdf_name, b.pdf_name)
    \/ a.pdf_name = b.pdf_name /\ a.page < b.page

\* list.sort(key=...): stable; results sort on ResultKeyLess, failures on
\* FailureKeyLess
RowLess(is_result, a, b) == IF is_result THEN ResultKeyLess(a, b) ELSE FailureKeyLess(a, b)

RECURSIVE SortRows(_, _)
SortRows(rows, is_result) ==
    IF rows = <<>> THEN <<>>
    ELSE LET rest == SortRows(SubSeq(rows, 1, Len(rows) - 1), is_result)
             x    == rows[Len(rows)]
             n    == Cardinality({ i \in 1..Len(rest) : ~RowLess(is_result, x, rest[i]) })
         IN  SubSeq(rest, 1, n) \o <<x>> \o SubSeq(rest, n + 1, Len(rest))

QuietResp == [kind |-> "none"]

TaskTables == {
    Table(AllColumns,
          << SourceRow(<<"X","N","1","0","0">>,
                       <<"f","o","r"," ","a","b","1","0","0"," ","c","d","2","0","0">>, <<"5">>),
             SourceRow(AB100, <<"x","n","1","0","0"," ","s","e","t">>, NaN) >>),
    Table({"hinban", "zaiku"}, << SourceRow(<<"X","N","1","0","0">>, <<>>, <<"5">>) >>),
    Table({"kidou", "zaiku"}, << SourceRow(<<>>, <<"x","n","1","0","0"," ","s","e","t">>, <<"5">>) >>),
    Table({"hinban", "kidou"}, << SourceRow(<<"Z","Z","9">>, <<"L","E","D">>, None) >>) }

TaskPdfs == {
    Pdf(<<"b">>, 1, "ok", << <<"x","n","1","0","0"," ","z","z","7","7"," ","s","c","a","l","e">> >>),
    Pdf(<<"a">>, 2, "ok", << <<"c","d","2","0","0">>, <<"p","a","g","e"," ","2">> >>),
    Pdf(<<"c">>, 1, "OCRError", <<>>),
    Pdf(<<"d">>, 0, "Exception", <<>>) }

\* the file lists an upload can carry: at least one PDF, distinct file names
TaskPdfLists ==
    { l \in SeqsUpTo(TaskPdfs, MaxDocs) :
        Len(l) >= 1 /\ \A i, j \in 1..Len(l) : i # j => l[i] # l[j] }

\* TaskState(task_id, directory) as upload stores it, and the arguments of the
\* scheduled process_task
Init ==
    /\ task = [totals |-> StatusTotals(0, 0, 0, 0), progress |-> 0, pages |-> 0,
               results |-> <<>>, failures |-> <<>>, matcher |-> <<>>, error |-> NoError]
    /\ \E csv \in TaskTables, pdfs \in TaskPdfLists :
          proc = [pc |-> "load", csv |-> csv, pdfs |-> pdfs, d |-> 1, p |-> 1,
                  page_texts |-> <<>>, events |-> <<>>, processed_pages |-> 0,
                  results |-> <<>>, failures |-> <<>>]
    /\ files = [results |-> <<>>, failures |-> <<>>]
    /\ resp = QuietResp
    /\ sem = Idle /\ gpt = Idle /\ idx = Idle /\ txt = Idle

Quiet == resp' = QuietResp /\ UNCHANGED <<sem, gpt, idx, txt>>

\* mutant: the matcher is published before its rows are indexed
LoadCsvPublishesEmpty ==
    /\ proc.pc = "load" /\ Load(proc.csv) # <<>>
    /\ task' = [task EXCEPT !.matcher = <<EmptyMatcher>>]
    /\ proc' = [proc EXCEPT !.pc = "count"]
    /\ UNCHANGED files /\ Quiet

\* matcher = DatabaseMatcher(csv_path); state.matcher = matcher: the index is
\* built on an object that only process_task holds, and then published
LoadCsv ==
    /\ proc.pc = "load" /\ Load(proc.csv) # <<>>
    /\ task' = [task EXCEPT !.matcher = Load(proc.csv)]
    /\ proc' = [proc EXCEPT !.pc = "count"]
    /\ UNCHANGED files /\ Quiet

\* DatabaseMatcher raises: state.error = ...
LoadCsvFails ==
    /\ proc.pc = "load" /\ Load(proc.csv) = <<>>
    /\ task' = [task EXCEPT !.error = "CSV"]
    /\ proc' = [proc EXCEPT !.pc = "load_failed"]
    /\ UNCHANGED files /\ Quiet

\* ... state.progress = 100; return
LoadCsvFailed ==
    /\ proc.pc = "load_failed"
    /\ task' = [task EXCEPT !.progress = 100]
    /\ proc' = [proc EXCEPT !.pc = "done"]
    /\ UNCHANGED files /\ Quiet

\* state.pages = total_pages
CountPages ==
    /\ proc.pc = "count"
    /\ task' = [task EXCEPT !.pages = TotalPages(proc.pdfs)]
    /\ proc' = [proc EXCEPT !.pc = "pdf"]
    /\ UNCHANGED files /\ Quiet

\* page_texts = extract_text_pages(pdf_path)
ExtractPdf ==
    /\ proc.pc = "pdf" /\ proc.d <= Len(proc.pdfs)
    /\ proc.pdfs[proc.d].extract = "ok"
    /\ proc' = [proc EXCEPT !.pc = "page", !.p = 1,
                            !.page_texts = proc.pdfs[proc.d].pages]
    /\ UNCHANGED <<task, files>> /\ Quiet

\* extract_text_pages raises: state.error = ...; break
ExtractPdfFails ==
    /\ proc.pc = "pdf" /\ proc.d <= Len(proc.pdfs)
    /\ proc.pdfs[proc.d].extract # "ok"
    /\ task' = [task EXCEPT !.error = proc.pdfs[proc.d].extract]
    /\ proc' = [proc EXCEPT !.pc = "error"]
    /\ UNCHANGED files /\ Quiet

\* tokens = extract_tokens(text); state.totals.tokens += len(tokens)
PageStart ==
    /\ proc.pc = "page" /\ proc.p <= Len(proc.page_texts)
    /\ LET tokens == extract_tokens(proc.page_texts[proc.p])
       IN  /\ task' = [task EXCEPT !.totals.tokens = @ + Len(tokens)]
           /\ proc' = [proc EXCEPT !.pc = "token",
                          !.events = PageEvents(task.matcher[1], proc.pdfs[proc.d].name,
                                                proc.p, tokens)]
    /\ UNCHANGED files /\ Quiet

\* results.append(ResultRow(matched_type="hinban")); state.totals.hit_hinban += 1
RecordHinban ==
    /\ proc.pc = "token" /\ proc.events # <<>> /\ Head(proc.events).kind = "hinban"
    /\ task' = [task EXCEPT !.totals.hit_hinban = @ + 1]
    /\ proc' = [proc EXCEPT !.results = Append(@, Head(proc.events).row),
                            !.events = Tail(@)]
    /\ UNCHANGED files /\ Quiet

\* results.append(ResultRow(matched_type="spec")); state.totals.hit_spec += 1
RecordSpec ==
    /\ proc.pc = "token" /\ proc.events # <<>> /\ Head(proc.events).kind = "spec"
    /\ task' = [task EXCEPT !.totals.hit_spec = @ + 1]
    /\ proc' = [proc EXCEPT !.results = Append(@, Head(proc.events).row),
                            !.events = Tail(@)]
    /\ UNCHANGED files /\ Quiet

\* failures.append(FailureRow(...)); state.totals.fail += 1
RecordFailure ==
    /\ proc.pc = "token" /\ proc.events # <<>> /\ Head(proc.events).kind = "fail"
    /\ task' = [task EXCEPT !.totals.fail = @ + 1]
    /\ proc' = [proc EXCEPT !.failures = Append(@, Head(proc.events).row),
                            !.events = Tail(@)]
    /\ UNCHANGED files /\ Quiet

\* processed_pages += 1; update_progress(state, processed_pages)
PageEnd ==
    /\ proc.pc = "token" /\ proc.events = <<>>
    /\ task' = [task EXCEPT !.progress = update_progress(task.pages, proc.processed_pages + 1)]
    /\ proc' = [proc EXCEPT !.pc = "page", !.p = @ + 1, !.processed_pages = @ + 1]
    /\ UNCHANGED files /\ Quiet

\* the pages of the PDF are exhausted: the next PDF
PdfEnd ==
    /\ proc.pc = "page" /\ proc.p > Len(proc.page_texts)
    /\ proc' = [proc EXCEPT !.pc = "pdf", !.d = @ + 1, !.p = 1, !.page_texts = <<>>]
    /\ UNCHANGED <<task, files>> /\ Quiet

\* if state.error: state.progress = 100
ErrorProgress ==
    /\ proc.pc = "error"
    /\ task' = [task EXCEPT !.progress = 100]
    /\ proc' = [proc EXCEPT !.pc = "error_results"]
    /\ UNCHANGED files /\ Quiet

\* state.results = []
ErrorResults ==
    /\ proc.pc = "error_results"
    /\ task' = [task EXCEPT !.results = <<>>]
    /\ proc' = [proc EXCEPT !.pc = "error_failures"]
    /\ UNCHANGED files /\ Quiet

\* state.failures = []; return
ErrorFailures ==
    /\ proc.pc = "error_failures"
    /\ task' = [task EXCEPT !.failures = <<>>]
    /\ proc' = [proc EXCEPT !.pc = "done"]
    /\ UNCHANGED files /\ Quiet

\* results.sort(...); failures.sort(...); state.results = results
PublishResults ==
    /\ proc.pc = "pdf" /\ proc.d > Len(proc.pdfs)
    /\ LET results  == SortRows(proc.results, TRUE)
           failures == SortRows(proc.failures, FALSE)
       IN  /\ proc' = [proc EXCEPT !.pc = "publish_failures", !.results = results,
                                   !.failures = failures]
           /\ task' = [task EXCEPT !.results = results]
    /\ UNCHANGED files /\ Quiet

\* state.failures = failures
PublishFailures ==
    /\ proc.pc = "publish_failures"
    /\ task' = [task EXCEPT !.failures = proc.failures]
    /\ proc' = [proc EXCEPT !.pc = "publish_progress"]
    /\ UNCHANGED files /\ Quiet

\* state.progress = 100
PublishProgress ==
    /\ proc.pc = "publish_progress"
    /\ task' = [task EXCEPT !.progress = 100]
    /\ proc' = [proc EXCEPT !.pc = "write_results"]
    /\ UNCHANGED files /\ Quiet

CsvHeader == "header"

\* write_csv(results_csv, ...) with no result row: the header alone
WriteResultsCsv ==
    /\ proc.pc = "write_results" /\ proc.results = <<>>
    /\ files' = [files EXCEPT !.results = <<CsvHeader>>]
    /\ proc' = [proc EXCEPT !.pc = "write_failures"]
    /\ UNCHANGED task /\ Quiet

\* write_csv(results_csv, ...) with a result row: the header is written, then
\* the first row reads r.zaiku, which ResultRow does not have: AttributeError
\* ends process_task
WriteResultsCsvRaises ==
    /\ proc.pc = "write_results" /\ proc.results # <<>>
    /\ files' = [files EXCEPT !.results = <<CsvHeader>>]
    /\ proc' = [proc EXCEPT !.pc = "raised"]
    /\ UNCHANGED task /\ Quiet

\* write_csv(failures_csv, ...)
WriteFailuresCsv ==
    /\ proc.pc = "write_failures"
    /\ files' = [files EXCEPT !.failures =
                    <<CsvHeader>> \o [i \in 1..Len(proc.failures) |->
                        <<proc.failures[i].pdf_name, proc.failures[i].page,
                          proc.failures[i].token>>]]
    /\ proc' = [proc EXCEPT !.pc = "done"]
    /\ UNCHANGED task /\ Quiet

Handled == UNCHANGED <<task, proc, files, sem, gpt, idx, txt>>

\* GET /api/status/{task_id}
get_status ==
    /\ resp' = IF task.error # NoError
               THEN [kind |-> "status", code |-> 500, detail |-> task.error]
               ELSE [kind |-> "status", code |-> 200, progress |-> task.progress,
                     totals |-> task.totals, pages |-> task.pages]
    /\ Handled

\* GET /api/results/{task_id}
get_results ==
    /\ resp' = IF task.error # NoError
               THEN [kind |-> "results", code |-> 500, detail |-> task.error]
               ELSE [kind |-> "results", code |-> 200, rows |-> task.results]
    /\ Handled

\* GET /api/failures/{task_id}
get_failures ==
    /\ resp' = IF task.error # NoError
               THEN [kind |-> "failures", code |-> 500, detail |-> task.error]
               ELSE [kind |-> "failures", code |-> 200, rows |-> task.failures]
    /\ Handled

RetryTokens == { <<"x","n","1","0","0">>, <<"C","D","2","0","0">> }

\* POST /api/retry
retry_request ==
    /\ \E token \in RetryTokens :
          resp' = IF task.matcher = <<>>
                  THEN [kind |-> "retry", code |-> 404, token |-> token]
                  ELSE [kind |-> "retry", code |-> 200, token |-> token,
                        candidates |-> retry(task.matcher[1], token)]
    /\ Handled

\* GET /api/download/{task_id}?type=...
download_csv ==
    /\ \E type \in {"results", "failures", "other"} :
          resp' = IF type \notin {"results", "failures"}
                  THEN [kind |-> "download", code |-> 400, type |-> type]
                  ELSE IF files[type] = <<>>
                  THEN [kind |-> "download", code |-> 404, type |-> type]
                  ELSE [kind |-> "download", code |-> 200, type |-> type,
                        lines |-> files[type]]
    /\ Handled

process_task ==
    \/ LoadCsv \/ LoadCsvFails \/ LoadCsvFailed \/ CountPages
    \/ ExtractPdf \/ ExtractPdfFails \/ PageStart
    \/ RecordHinban \/ RecordSpec \/ RecordFailure \/ PageEnd \/ PdfEnd
    \/ ErrorProgress \/ ErrorResults \/ ErrorFailures
    \/ PublishResults \/ PublishFailures \/ PublishProgress
    \/ WriteResultsCsv \/ WriteResultsCsvRaises \/ WriteFailuresCsv

Requests == get_status \/ get_results \/ get_failures \/ retry_request \/ download_csv

Next == process_task \/ Requests

Spec == Init /\ [][Next]_vars

\* the two write_csv calls that end process_task
WriteCsvFiles == WriteResultsCsv \/ WriteResultsCsvRaises \/ WriteFailuresCsv

\* the worker thread that has published the lists goes on until process_task
\* returns or raises
FairSpec == Spec /\ WF_vars(WriteCsvFiles)

(***************************************************************************)
(* The text functions on their own: normalize_text, extract_tokens and     *)
(* _unique_items applied to a text or to a list of items.                  *)
(***************************************************************************)
MaxLen == 3
MaxWords == 2
MaxUnique == 3

TxtChars == {"a", "Z", "1", "-", " ", "fw_sp", "minus", "kra", "iota_dt"}

TxtWords == <<
    <<"fw_m","fw_n","minus","4","5","0","x">>,
    <<"t","e","s","t">>,
    <<"S","C","A","L","E">>,
    <<"Z","X","_","9","9","0","0">>,
    <<"z","x","_","9","9","0","0">>,
    <<"a","b","1">>,
    <<"mdash","a","b","1","2","/","-">>,
    <<"1","2","3","4">>,
    <<"d","a","t","e","1">>,
    <<"iota_dt","A","1","2","3">> >>

\* the words of ws joined by single spaces
RECURSIVE JoinWords(_)
JoinWords(ws) ==
    IF ws = <<>> THEN <<>>
    ELSE IF Len(ws) = 1 THEN TxtWords[ws[1]]
    ELSE TxtWords[ws[1]] \o <<" ">> \o JoinWords(Tail(ws))

\* the text of test_normalize_and_extract
TestText == JoinWords(<<1, 2, 3, 4>>)

TxtTexts ==
    {None, TestText} \cup SeqsUpTo(TxtChars, MaxLen)
           \cup { JoinWords(ws) : ws \in SeqsUpTo(1..Len(TxtWords), MaxWords) }

TxtItems == {
    Item(<<" ","x","n","1","0","0"," ">>, Missing),
    Item(<<"X","N","1","0","0">>, <<"x","n"," ","1","0","0">>),
    Item(<<"X","N","1","0","0","-","B">>, <<"X","N","1","0","0">>),
    Item(<<"a","b","1","2">>, <<"A","B","1","2">>),
    Item(Missing, <<" ">>),
    Item(<<"iota_dt","1">>, Missing) }

TxtState(pc, text, items) ==
    [pc |-> pc, text |-> text, items |-> items, out |-> <<>>, again |-> <<>>,
     tokens |-> <<>>, unique |-> <<>>, unique_again |-> <<>>]

TxtInit ==
    /\ \/ \E text \in TxtTexts : txt = TxtState("text", text, <<>>)
       \/ \E items \in SeqsUpTo(TxtItems, MaxUnique) : txt = TxtState("items", <<>>, items)
    /\ task = Idle /\ proc = Idle /\ files = Idle /\ resp = Idle
    /\ sem = Idle /\ gpt = Idle /\ idx = Idle

\* normalize_text(text), and normalize_text of the result
TxtNormalize ==
    /\ txt.pc = "text"
    /\ txt' = [txt EXCEPT !.pc = "normalized", !.out = normalize_text(txt.text),
                          !.again = normalize_text(normalize_text(txt.text))]
    /\ UNCHANGED <<task, proc, files, resp, sem, gpt, idx>>

\* extract_tokens(text)
TxtExtract ==
    /\ txt.pc = "text"
    /\ txt' = [txt EXCEPT !.pc = "extracted", !.tokens = extract_tokens(txt.text)]
    /\ UNCHANGED <<task, proc, files, resp, sem, gpt, idx>>

\* _unique_items(items), and _unique_items of the result
TxtUnique ==
    /\ txt.pc = "items"
    /\ txt' = [txt EXCEPT !.pc = "unique", !.unique = _unique_items(txt.items).items,
                          !.unique_again =
                              _unique_items(_unique_items(txt.items).items).items]
    /\ UNCHANGED <<task, proc, files, resp, sem, gpt, idx>>

TxtNext == TxtNormalize \/ TxtExtract \/ TxtUnique

SpecText == TxtInit /\ [][TxtNext]_vars

(***************************************************************************)
(* Claims about _match_semantic_items (checked under SpecSem).             *)
(***************************************************************************)
SemDone == sem.pc = "done"
SemRowsOf(m) == Range(DictValues(m.hinban_map))
SemResultIdx == IF SemDone THEN 1..Len(sem.results) ELSE {}

\* the conditions of the four tiers, stated on the index rather than computed
\* by the scans
ExactHolds(m, n) == \E r \in SemRowsOf(m) : r.hinban = n
SubstrHolds(m, n) ==
    \E r \in SemRowsOf(m) : IsSubstr(n, r.hinban) \/ IsSubstr(r.hinban, n)
KidouHolds(m, n) == retry(m, n) # <<>>
FuzzyHolds(m, n, thr) == \E r \in SemRowsOf(m) : RatioAtLeast(Ratio(n, r.hinban), thr)

FirstTier(m, n, thr) ==
    IF ExactHolds(m, n) THEN "EXACT"
    ELSE IF SubstrHolds(m, n) THEN "SUBSTR"
    ELSE IF KidouHolds(m, n) THEN "KIDOU"
    ELSE IF FuzzyHolds(m, n, thr) THEN "FUZZY"
    ELSE "NONE"

\* C1: every result reports the first tier, in the order EXACT, SUBSTR, KIDOU,
\* FUZZY, whose condition holds for its candidate; a candidate whose normalized
\* text is a key of the exact map is EXACT with score 1.0 whatever else holds.
C1_CascadeOrder ==
    \A k \in SemResultIdx :
        LET r == sem.results[k]
            m == sem.matcher[1]
        IN  /\ r.match_status = FirstTier(m, r.normalized, sem.fuzzy_threshold)
            /\ r.normalized \in DictKeys(m.hinban_map)
                   => r.match_status = "EXACT" /\ r.score = ScoreExact

\* an EXACT result whose candidate is also a token of the spec index and
\* a substring of another part number
C1_Witness ==
    \E k \in SemResultIdx :
        LET r == sem.results[k]
        IN  /\ r.match_status = "EXACT"
            /\ r.normalized \in DictKeys(sem.matcher[1].kidou_map)
            /\ \E o \in SemRowsOf(sem.matcher[1]) :
                  o.hinban # r.normalized /\ IsSubstr(r.normalized, o.hinban)

\* C6: a candidate that retry resolves through the exact map (under
\* normalize_text) is reported EXACT, never as a weaker kind.
C6_NeverDowngraded ==
    \A k \in SemResultIdx :
        normalize_text(sem.results[k].normalized) \in DictKeys(sem.matcher[1].hinban_map)
            => sem.results[k].match_status = "EXACT"

FixedScores == {ScoreExact, ScoreSubstr, ScoreKidou, ScoreNone}

\* the greatest similarity of n to a reference part number (0 for no rows)
MaxRatio(m, n) ==
    IF SemRowsOf(m) = {} THEN <<0, 1>>
    ELSE LET rs == { Ratio(n, r.hinban) : r \in SemRowsOf(m) }
         IN  CHOOSE x \in rs : \A y \in rs : RatioAtLeast(x, y)

OnePerCandidate ==
    SemDone =>
        /\ Len(sem.results) = Len(sem.items)
        /\ \A k \in 1..Len(sem.items) :
              /\ sem.results[k].normalized = sem.items[k].normalized
              /\ sem.results[k].input_hinban = sem.items[k].hinban

\* C7 as stated: one result per candidate, status and score determine each
\* other, matched_hinban is set iff the status is not NONE.
C7_StatusIffScore ==
    /\ OnePerCandidate
    /\ \A k \in SemResultIdx :
          LET r == sem.results[k]
          IN  /\ r.match_status = "EXACT" <=> r.score = ScoreExact
              /\ r.match_status = "SUBSTR" <=> r.score = ScoreSubstr
              /\ r.match_status = "KIDOU" <=> r.score = ScoreKidou
              /\ r.match_status = "NONE" <=> r.score = ScoreNone
              /\ r.match_status = "FUZZY" <=> r.score \notin FixedScores
              /\ r.matched_hinban # None <=> r.match_status # "NONE"

\* C7 amended: one result per candidate; the status determines the score
\* (EXACT 1.0, SUBSTR 0.9, KIDOU 0.88, NONE 0.0, FUZZY the rounded greatest
\* similarity, which is at or above the threshold before rounding); score 0.0
\* occurs only with NONE; matched_hinban is set iff the status is not NONE.
C7_StatusDeterminesScore ==
    /\ OnePerCandidate
    /\ \A k \in SemResultIdx :
          LET r == sem.results[k]
              best == MaxRatio(sem.matcher[1], r.normalized)
          IN  /\ r.match_status \in {"EXACT", "SUBSTR", "KIDOU", "FUZZY", "NONE"}
              /\ r.match_status = "EXACT" => r.score = ScoreExact
              /\ r.match_status = "SUBSTR" => r.score = ScoreSubstr
              /\ r.match_status = "KIDOU" => r.score = ScoreKidou
              /\ r.match_status = "NONE" <=> r.score = ScoreNone
              /\ r.match_status = "FUZZY" =>
                     /\ r.score = Round3(best)
                     /\ RatioAtLeast(best, sem.fuzzy_threshold)
              /\ r.matched_hinban # None <=> r.match_status # "NONE"

\* a FUZZY result that carries the score of the SUBSTR tier
C7_Witness ==
    \E k \in SemResultIdx :
        sem.results[k].match_status = "FUZZY" /\ sem.results[k].score = ScoreSubstr

\* C8: when no EXACT, SUBSTR or KIDOU tier qualifies the result is FUZZY,
\* against a part number of greatest similarity and with that similarity
\* rounded as its score, iff the greatest similarity is >= the threshold
\* (compared before rounding); otherwise, and for an empty reference, it is
\* NONE with score 0.0 and no matched part number.  Thresholds are positive.
C8_FuzzyThreshold ==
    \A k \in SemResultIdx :
        LET r == sem.results[k]
            m == sem.matcher[1]
            best == MaxRatio(m, r.normalized)
        IN  ~(ExactHolds(m, r.normalized) \/ SubstrHolds(m, r.normalized)
                \/ KidouHolds(m, r.normalized)) =>
              IF SemRowsOf(m) # {} /\ RatioAtLeast(best, sem.fuzzy_threshold)
              THEN /\ r.match_status = "FUZZY"
                   /\ r.score = Round3(best)
                   /\ Ratio(r.normalized, r.matched_hinban) = best
              ELSE /\ r.match_status = "NONE"
                   /\ r.score = ScoreNone
                   /\ r.matched_hinban = None

\* a FUZZY result whose similarity equals the threshold exactly
C8_Witness ==
    \E k \in SemResultIdx :
        /\ sem.results[k].match_status = "FUZZY"
        /\ LET best == MaxRatio(sem.matcher[1], sem.results[k].normalized)
           IN  best[1] * sem.fuzzy_threshold[2] = sem.fuzzy_threshold[1] * best[2]

\* a NONE result whose greatest similarity is below the threshold but rounds
\* to a score at or above it
C8_RoundingCase ==
    \E k \in SemResultIdx :
        /\ sem.results[k].match_status = "NONE"
        /\ LET best == MaxRatio(sem.matcher[1], sem.results[k].normalized)
           IN  RatioAtLeast(<<Round3(best), 1000>>, sem.fuzzy_threshold)

(***************************************************************************)
(* Claims about extract_hinbans_with_gpt (checked under SpecGpt).          *)
(***************************************************************************)
GptLast == gpt.history[Len(gpt.history)]

\* the payload of o is a list of objects with string texts of which at least
\* one has a non-empty normalized text
GoodPayload(o) ==
    /\ o.kind = "response" /\ o.tool_calls /\ o.parse = "object"
    /\ o.has_items /\ o.is_list
    /\ \A i \in 1..Len(o.items) :
          o.items[i].is_dict /\ o.items[i].normalized # NonString
    /\ \E i \in 1..Len(o.items) :
          _normalize_candidate(ItemNormalizedArg(o.items[i])) # <<>>

\* C4: extract_hinbans_with_gpt never propagates an exception and returns
\* {method, items}: "gpt_tool" with the deduplicated payload exactly when the
\* payload is a well-formed list with a non-empty deduplicated content, and
\* "regex_fallback" with the regex-derived items of the text for every other
\* outcome of the LLM call.
C4_AlwaysTaggedResult ==
    /\ gpt.pc \in {"loop", "returned"}
    /\ gpt.pc = "returned" =>
          /\ gpt.result.method \in {"gpt_tool", "regex_fallback"}
          /\ gpt.result.method = "gpt_tool" <=> GoodPayload(GptLast)
          /\ gpt.result.method = "gpt_tool" =>
                /\ gpt.result.items # <<>>
                /\ gpt.result.items = _unique_items(GptLast.items).items
          /\ gpt.result.method = "regex_fallback" =>
                gpt.result.items = _fallback_regex_extraction(gpt.text)

\* a fallback with a non-empty regex result after a payload element that is
\* not an object
C4_Witness ==
    /\ gpt.pc = "returned" /\ gpt.result.method = "regex_fallback"
    /\ gpt.result.items # <<>>
    /\ GptLast.kind = "response" /\ GptLast.is_list
    /\ \E i \in 1..Len(GptLast.items) : ~GptLast.items[i].is_dict

IsTransient(o) == o.kind = "error" /\ o.status \in TransientStatuses

\* C5: at most 3 LLM calls; every call but the last failed with a transient
\* status and was followed by a sleep of 1.5^k seconds (k the attempt number);
\* any other outcome, and a transient failure of the third attempt, ends the
\* function (with the fallback unless the payload was good).
C5_BoundedRetries ==
    LET n == Len(gpt.history)
    IN  /\ gpt.llm_calls = n /\ gpt.attempt = n /\ n <= MaxAttempts
        /\ \A k \in 1..(n - 1) : IsTransient(gpt.history[k])
        /\ gpt.pc = "loop" => n < MaxAttempts /\ \A k \in 1..n : IsTransient(gpt.history[k])
        /\ gpt.pc = "returned" => n >= 1
        /\ gpt.slept = [k \in 1..(IF gpt.pc = "loop" THEN n ELSE n - 1) |->
                            <<Pow(3, k), Pow(2, k)>>]
        /\ (n >= 1 /\ ~(IsTransient(GptLast) /\ n < MaxAttempts)) => gpt.pc = "returned"
        /\ (gpt.pc = "returned" /\ ~GoodPayload(GptLast)) =>
               gpt.result.method = "regex_fallback"

\* three transient failures: sleeps of 1.5 s and 2.25 s, then the fallback
C5_Witness ==
    /\ gpt.pc = "returned" /\ gpt.llm_calls = 3
    /\ IsTransient(GptLast)
    /\ gpt.slept = << <<3, 2>>, <<9, 4>> >>
    /\ gpt.result.method = "regex_fallback"

(***************************************************************************)
(* Claims about match_token and retry (checked under SpecIdx).             *)
(***************************************************************************)
IdxSrc == idx.table.rows
IdxSrcHinban(i) == normalize_text(CellStr(IdxSrc[i].hinban))
IdxSrcTokens(i) == Range(extract_tokens(normalize_text(CellStr(IdxSrc[i].kidou))))

\* the part numbers of the table are ABC123 and XYZ999
C9_Table == Len(IdxSrc) = 2 /\ IdxSrcHinban(1) = ABC123 /\ IdxSrcHinban(2) = XYZ999
C9_Call == idx.pc = "match_token" /\ idx.token = <<"a","b","c","1","2","3">>

\* C9 as stated: on a table whose part numbers are ABC123 and XYZ999,
\* match_token("abc123") returns a non-empty part-number match list and an
\* empty spec match list, whatever the spec texts are.
C9_SpecMatchEmpty ==
    (C9_Table /\ C9_Call) =>
        idx.hinban_matches # <<>> /\ idx.kidou_matches = <<>>

\* C9 amended: match_token("abc123") returns the one ABC123 row as the
\* part-number match, and as spec matches exactly the rows whose spec text
\* contains the token ABC123, in table order: none when no spec text does.
C9_IndependentLookups ==
    (C9_Table /\ C9_Call) =>
        /\ Len(idx.hinban_matches) = 1
        /\ idx.hinban_matches[1].hinban = ABC123
        /\ idx.hinban_matches[1].kidou = normalize_text(CellStr(IdxSrc[1].kidou))
        /\ LET hits == SelectSeq(<<1, 2>>, LAMBDA i : ABC123 \in IdxSrcTokens(i))
           IN  idx.kidou_matches = [k \in 1..Len(hits) |->
                   MatchRow(IdxSrcHinban(hits[k]),
                            normalize_text(CellStr(IdxSrc[hits[k]].kidou)),
                            IF "zaiku" \in idx.table.columns
                            THEN CellStr(IdxSrc[hits[k]].zaiku) ELSE None)]

\* the call of the claim on a table none of whose spec texts has the token
C9_Witness ==
    /\ C9_Table /\ C9_Call
    /\ \A i \in 1..2 : ABC123 \notin IdxSrcTokens(i)
    /\ idx.hinban_matches # <<>> /\ idx.kidou_matches = <<>>

\* C10: retry(token) is strictly ascending and holds exactly the part number
\* of the exact-map entry of the normalized token, if any, and the part
\* numbers of the rows registered under it in the spec index (the rows whose
\* spec text has the token); it is empty when neither lookup hits, and the
\* index is left as loaded.
C10_RetrySortedUnique ==
    /\ idx.matcher = Load(idx.table)[1]
    /\ idx.pc = "retry" =>
          LET n == normalize_text(idx.token)
              exact == { IdxSrcHinban(i) : i \in { j \in 1..Len(IdxSrc) :
                             IdxSrcHinban(j) = n /\ n # <<>> } }
              spec == { IdxSrcHinban(i) : i \in { j \in 1..Len(IdxSrc) :
                             n \in IdxSrcTokens(j) } }
              out == idx.candidates
          IN  /\ \A k \in 1..(Len(out) - 1) : StrLess(out[k], out[k + 1])
              /\ Range(out) = exact \cup spec
              /\ (n \notin DictKeys(idx.matcher.hinban_map)
                   /\ n \notin DictKeys(idx.matcher.kidou_map)) => out = <<>>

\* a retry that returns two part numbers, one from each lookup
C10_Witness ==
    /\ idx.pc = "retry" /\ Len(idx.candidates) = 2
    /\ normalize_text(idx.token) \in DictKeys(idx.matcher.hinban_map)
    /\ normalize_text(idx.token) \in DictKeys(idx.matcher.kidou_map)

\* the rows whose part-number cell is filled in
IdxFilled == { j \in 1..Len(IdxSrc) : IdxSrc[j].hinban # NaN /\ IdxSrc[j].hinban # <<>> }

\* C12: after load every key of the exact map is the normalized, non-empty
\* part number of a source row whose part-number cell is filled in, a row
\* with an empty part-number cell adds no entry, and the entry of a key is
\* that of the last row with that part number.
C12_EmptyPartNumbersExcluded ==
    LET hmap == idx.matcher.hinban_map
    IN  /\ \A k \in DictKeys(hmap) :
              /\ k # <<>>
              /\ \E j \in IdxFilled : IdxSrcHinban(j) = k
              /\ LET last == CHOOSE j \in IdxFilled :
                                /\ IdxSrcHinban(j) = k
                                /\ \A i \in IdxFilled : IdxSrcHinban(i) = k => i <= j
                 IN  DictGet(hmap, k).kidou = normalize_text(CellStr(IdxSrc[last].kidou))
        /\ Len(hmap) <= Cardinality(IdxFilled)


(***************************************************************************)
(* Claims about process_task and the request handlers (checked under Spec). *)
(***************************************************************************)
\* the pages whose token loop has run to its end
PageResolved(d, p) ==
    /\ d \in 1..Len(proc.pdfs) /\ p \in 1..Len(proc.pdfs[d].pages)
    /\ task.matcher # <<>>
    /\ \/ d < proc.d
       \/ d = proc.d /\ p < proc.p
       \/ d = proc.d /\ p = proc.p /\ proc.pc = "token" /\ proc.events = <<>>

ResultCount(d, p, token, type) ==
    Cardinality({ i \in 1..Len(proc.results) :
        /\ proc.results[i].pdf_name = proc.pdfs[d].name /\ proc.results[i].page = p
        /\ proc.results[i].token = token /\ proc.results[i].matched_type = type })

FailureCount(d, p, token) ==
    Cardinality({ i \in 1..Len(proc.failures) :
        /\ proc.failures[i].pdf_name = proc.pdfs[d].name /\ proc.failures[i].page = p
        /\ proc.failures[i].token = token })

\* C2: every token of a resolved page has one 'hinban' record per exact match
\* and one 'spec' record per spec-index hit, or exactly one failure record,
\* never both and never neither; it is among the failures exactly when
\* match_token returned no exact match and no spec match for it.
C2_ResultsXorFailure ==
    \A d \in 1..Len(proc.pdfs) : \A p \in 1..Len(proc.pdfs[d].pages) :
        PageResolved(d, p) =>
            \A token \in Range(extract_tokens(proc.pdfs[d].pages[p])) :
                LET hinban_matches == match_token(task.matcher[1], token)[1]
                    kidou_matches  == match_token(task.matcher[1], token)[2]
                    hits == ResultCount(d, p, token, "hinban") + ResultCount(d, p, token, "spec")
                    miss == FailureCount(d, p, token)
                IN  /\ ResultCount(d, p, token, "hinban") = Len(hinban_matches)
                    /\ ResultCount(d, p, token, "spec") = Len(kidou_matches)
                    /\ (hits >= 1 /\ miss = 0) \/ (hits = 0 /\ miss = 1)
                    /\ miss = 1 <=> (hinban_matches = <<>> /\ kidou_matches = <<>>)

\* a resolved page with a token that hit both indexes, a token that hit only
\* the spec index on another page, and a token that failed
C2_Witness ==
    /\ \E d \in 1..Len(proc.pdfs) : \E p \in 1..Len(proc.pdfs[d].pages) :
          /\ PageResolved(d, p)
          /\ \E token \in Range(extract_tokens(proc.pdfs[d].pages[p])) :
                /\ ResultCount(d, p, token, "hinban") >= 1
                /\ ResultCount(d, p, token, "spec") >= 1
          /\ \E token \in Range(extract_tokens(proc.pdfs[d].pages[p])) :
                FailureCount(d, p, token) = 1
    /\ \E d \in 1..Len(proc.pdfs) : \E p \in 1..Len(proc.pdfs[d].pages) :
          /\ PageResolved(d, p)
          /\ \E token \in Range(extract_tokens(proc.pdfs[d].pages[p])) :
                /\ ResultCount(d, p, token, "hinban") = 0
                /\ ResultCount(d, p, token, "spec") >= 1

\* C3: in every state of the task, hit_hinban + hit_spec is the number of
\* result records the task holds and fail the number of failure records it
\* holds.
C3_CountersMatchRecords ==
    /\ task.totals.hit_hinban + task.totals.hit_spec = Len(task.results)
    /\ task.totals.fail = Len(task.failures)

\* C3 as a request sees it: a status response and the results and failures the
\* task would return at the same moment
C3_StatusMatchesLists ==
    (resp.kind = "status" /\ resp.code = 200) =>
        /\ resp.totals.hit_hinban + resp.totals.hit_spec = Len(task.results)
        /\ resp.totals.fail = Len(task.failures)


\* C11: a reference table without the part-number column or without the
\* spec-text column is never indexed: the task's matcher stays unset, no page
\* is resolved, the task ends with the error recorded and progress 100, and a
\* retry request is answered 404.
C11_SchemaErrorIsFatal ==
    ~SchemaOk(proc.csv) =>
        /\ task.matcher = <<>>
        /\ proc.pc \in {"load", "load_failed", "done"}
        /\ proc.processed_pages = 0 /\ proc.results = <<>> /\ proc.failures = <<>>
        /\ task.totals = StatusTotals(0, 0, 0, 0) /\ task.pages = 0
        /\ task.results = <<>> /\ task.failures = <<>>
        /\ proc.pc # "load" => task.error = "CSV"
        /\ proc.pc = "done" => task.progress = 100
        /\ resp.kind = "retry" => resp.code = 404

\* the task of a table without part-number column has ended and a retry
\* request has been answered
C11_Witness ==
    /\ "hinban" \notin proc.csv.columns /\ proc.csv.rows # <<>>
    /\ proc.pc = "done" /\ task.error = "CSV" /\ task.progress = 100
    /\ resp.kind = "retry" /\ resp.code = 404


\* C13: when the reference table has a stock column, every result record
\* carries the stock of the reference row it was matched to.
C13_ResultCarriesStock ==
    "zaiku" \in proc.csv.columns =>
        \A i \in 1..Len(proc.results) :
            LET r    == proc.results[i]
                rows == IF r.matched_type = "hinban"
                        THEN match_token(task.matcher[1], r.token)[1]
                        ELSE match_token(task.matcher[1], r.token)[2]
            IN  \E k \in 1..Len(rows) :
                    rows[k].hinban = r.matched_hinban /\ r.zaiko = rows[k].zaiku


\* C17: the task's matcher is unset or the completely built index of the
\* uploaded table; a retry request is answered 404 when it is unset and
\* otherwise with the candidates of the complete index; once set, the matcher
\* never changes.
C17_IndexBuiltOnce ==
    /\ [](task.matcher # <<>> => task.matcher = Load(proc.csv))
    /\ [](resp.kind = "retry" =>
            IF task.matcher = <<>> THEN resp.code = 404
            ELSE /\ resp.code = 200
                 /\ resp.candidates = retry(Load(proc.csv)[1], resp.token))
    /\ [][task.matcher # <<>> => task.matcher' = task.matcher]_vars

\* a retry request answered from the index while a page is being resolved
C17_Witness ==
    /\ proc.pc = "token" /\ proc.events # <<>>
    /\ resp.kind = "retry" /\ resp.code = 200 /\ resp.candidates # <<>>

\* process_task has ended after extract_text_pages raised for proc.pdfs[proc.d]
ExtractionFailed == proc.pc = "done" /\ task.error \in {"OCRError", "Exception"}

\* C18: after a failure of extraction for one document, no page of that
\* document has been resolved, and the result and failure records produced
\* for the documents before it are still the task's results and failures.
C18_FailureIsLocal ==
    ExtractionFailed =>
        /\ \A i \in 1..Len(proc.results) :
              proc.results[i].pdf_name # proc.pdfs[proc.d].name
        /\ \A i \in 1..Len(proc.failures) :
              proc.failures[i].pdf_name # proc.pdfs[proc.d].name
        /\ \A i \in 1..Len(proc.results) : proc.results[i] \in Range(task.results)
        /\ \A i \in 1..Len(proc.failures) : proc.failures[i] \in Range(task.failures)

\* what process_task does instead: the whole task is given up, its lists are
\* emptied and the documents after the failed one are not read
C18_TaskGivenUp ==
    ExtractionFailed =>
        /\ task.results = <<>> /\ task.failures = <<>> /\ task.progress = 100
        /\ \A i \in 1..Len(proc.results) :
              \E d \in 1..(proc.d - 1) : proc.results[i].pdf_name = proc.pdfs[d].name
        /\ \A i \in 1..Len(proc.failures) :
              \E d \in 1..(proc.d - 1) : proc.failures[i].pdf_name = proc.pdfs[d].name
        /\ files = [results |-> <<>>, failures |-> <<>>]

\* C19: when a status response reports progress 100 without an error, the
\* task's result and failure lists are the final, sorted lists.
C19_ListsFinalAtFullProgress ==
    (resp.kind = "status" /\ resp.code = 200 /\ resp.progress = 100) =>
        /\ proc.pc \in {"write_results", "write_failures", "raised", "done"}
        /\ task.results = SortRows(proc.results, TRUE)
        /\ task.failures = SortRows(proc.failures, FALSE)

CsvFilesComplete ==
    /\ Len(files.results) = 1 + Len(task.results)
    /\ Len(files.failures) = 1 + Len(task.failures)

\* C20: a task that has resolved its documents without error eventually has
\* results.csv and failure.csv written, with one line per record after the
\* header.
C20_CsvFilesWritten == (proc.pc = "write_results") ~> CsvFilesComplete

\* C20 for the tasks without result record
C20_WithoutResults ==
    (proc.pc = "write_results" /\ proc.results = <<>>) ~> CsvFilesComplete

(***************************************************************************)
(* Claims about the text functions (checked under SpecText).               *)
(***************************************************************************)
\* the normalized text _unique_items computes for the i-th input item
TxtKey(i) == _normalize_candidate(ItemNormalizedArg(txt.items[i]))
\* the input positions that hold the first occurrence of a non-empty key
TxtFirsts ==
    SelectSeq([i \in 1..Len(txt.items) |-> i],
              LAMBDA i : TxtKey(i) # <<>> /\ \A j \in 1..(i - 1) : TxtKey(j) # TxtKey(i))

\* the deduplication of C14: distinct non-empty keys, the first occurrence of
\* each, in the order of the first occurrences
C14_FirstOccurrences ==
    txt.pc = "unique" =>
        /\ \A a, b \in 1..Len(txt.unique) :
              a # b => txt.unique[a].normalized # txt.unique[b].normalized
        /\ \A a \in 1..Len(txt.unique) : txt.unique[a].normalized # <<>>
        /\ txt.unique = [k \in 1..Len(TxtFirsts) |->
                            Item(ItemHinban(txt.items[TxtFirsts[k]]), TxtKey(TxtFirsts[k]))]

\* C14: _unique_items returns items with distinct, non-empty normalized texts,
\* for each the first input item with that normalized text, in the order of
\* the first occurrences; applied to its own output it returns the same list.
C14_UniqueItems ==
    /\ C14_FirstOccurrences
    /\ txt.pc = "unique" => txt.unique_again = txt.unique


\* C15: extract_tokens returns a strictly ascending list of tokens of at least
\* 4 characters that start with a letter A-Z or a digit, consist of A-Z, 0-9,
\* '-', '_' and '/', contain a digit and are no blacklist word; the text of
\* the test yields MN-450X and ZX_9900 and not SCALE.
C15_TokensWellFormed ==
    txt.pc = "extracted" =>
        /\ \A k \in 1..(Len(txt.tokens) - 1) : StrLess(txt.tokens[k], txt.tokens[k + 1])
        /\ \A k \in 1..Len(txt.tokens) :
              LET token == txt.tokens[k]
              IN  /\ Len(token) >= 4
                  /\ token[1] \in UpperChars \cup DigitChars
                  /\ \A i \in 1..Len(token) :
                        token[i] \in UpperChars \cup DigitChars \cup {"-", "_", "/"}
                  /\ \E i \in 1..Len(token) : token[i] \in DigitChars
                  /\ token \notin BLACKLIST
        /\ txt.text = TestText =>
              /\ <<"M","N","-","4","5","0","X">> \in Range(txt.tokens)
              /\ <<"Z","X","_","9","9","0","0">> \in Range(txt.tokens)
              /\ <<"S","C","A","L","E">> \notin Range(txt.tokens)

\* the tokens of the text of the test
C15_Witness ==
    /\ txt.pc = "extracted" /\ txt.text = TestText
    /\ txt.tokens = << <<"M","N","-","4","5","0","X">>, <<"Z","X","_","9","9","0","0">> >>

\* C16: normalize_text applied twice gives what it gives applied once; its
\* result has no leading or trailing whitespace, no two whitespace characters
\* in a row, no lowercase letter and none of the three dashes; None and the
\* empty text give the empty text.
C16_NormalizeIdempotent ==
    txt.pc = "normalized" =>
        /\ txt.again = txt.out
        /\ txt.out # <<>> => txt.out[1] \notin SpaceChars /\ txt.out[Len(txt.out)] \notin SpaceChars
        /\ \A i \in 1..(Len(txt.out) - 1) :
              ~(txt.out[i] \in SpaceChars /\ txt.out[i + 1] \in SpaceChars)
        /\ \A i \in 1..Len(txt.out) : ~IsLowerChar(txt.out[i]) /\ txt.out[i] \notin Range(DashSeq)
        /\ txt.text \in {None, <<>>} => txt.out = <<>>

\* C16 without the characters that str.upper() leaves lowercase or expands
C16_OnPlainText ==
    (txt.pc = "normalized" /\ txt.text # None
        /\ \A i \in 1..Len(txt.text) : txt.text[i] \notin {"kra", "iota_dt"})
    => C16_NormalizeIdempotent

====
